---------------------------- MODULE Spec2Model ----------------------------
(***************************************************************************)
(* A model of the bitcoin package: field arithmetic and the curve group    *)
(* (curve.py), ECDSA signing (signature.py), key encoding (identity.py)    *)
(* and the transaction codec (transaction.py), with the signing flows of   *)
(* part2.py / part3.py / part4.py.                                         *)
(*                                                                         *)
(* Python integers are unbounded; TLC's are 32-bit.  The curve is          *)
(* therefore a scaled-down y^2 = x^3 + 7 (as secp256k1: a = 0, b = 7, the  *)
(* field prime larger than the prime group order), small enough that every *)
(* intermediate product of the code stays inside TLC's range.  TLC stops   *)
(* with an overflow error rather than wrapping, so no result below rests   *)
(* on wrapped arithmetic.                                                  *)
(***************************************************************************)
EXTENDS Integers, Sequences, FiniteSets, TLC

VARIABLES
    \* ---- inv / extended_euclidean_algorithm (curve.py) ----
    inv_n,      \* inv's argument n
    inv_p,      \* inv's argument p
    eea,        \* the loop variables r0, r1, s0, s1, t0, t1
    inv_pc,     \* "idle" | "loop" | "done"
    inv_ret,    \* what inv returned: None, or a result
    \* ---- Curve / Point (curve.py) ----
    cv_point,   \* the Point a method is called on
    cv_pc,      \* "idle" | "ready" | "done"
    cv_ret,     \* what the call returned or raised
    \* ---- sign / verify (signature.py) and the random module ----
    rng,        \* the state of the process-wide generator of module random
    calls,      \* history: one [secret_key, k, g] per call of sign, g the
                \* generator state its nonce k was drawn from
    sig,        \* the Signature the last sign returned, or None
    sig_msg,    \* the message of that call
    ver_ret,    \* what verify returned for it: None before the call
    \* ---- Tx (transaction.py) and the signing flow of part2/3/4.py ----
    tx,         \* the Tx object: version, tx_ins, tx_outs, locktime
    owner,      \* owner[i]: the secret key of the wallet that input i spends from
    pc,         \* pc[i]: where the signer of input i is in its flow
    msgs,       \* msgs[i]: the signer's message = tx.encode(sig_index=i), or None
    unsigned,   \* history: unsigned[i] is tx.encode(sig_index=i) of the
                \* transaction as constructed, no input signed
    sigs,       \* sigs[i]: the signer's Signature, or None
    tx_ret,     \* what the last tx.encode() returned or raised, None once
                \* the transaction has changed since
    id_ret,     \* the same for tx.id()
    sh_ret,     \* the same for tx.encode(sig_index), with the sig_index given
    \* ---- Point.__rmul__ and sums of multiples (curve.py, part1.py) ----
    rm_self,    \* the Point multiplied
    rm_k0,      \* the scalar the call was made with
    rm_k2,      \* a second scalar, whose multiple is added to the first
    rm_k,       \* the loop's k
    rm_result,  \* the loop's result
    rm_append,  \* the loop's append
    rm_pc,      \* "idle" | "called" | "loop" | "returned" | "summed"
    rm_ret,     \* what k0 * self returned or raised
    rm_sum,     \* k0 * self + k2 * self, once added
    \* ---- Point.__add__ (curve.py) ----
    add_P,      \* the left operand
    add_Q,      \* the right operand
    add_pc,     \* "idle" | "ready" | "done"
    add_ret,    \* P + Q
    \* ---- gen_random_secret_key / gen_key_pair (identity.py) ----
    key_n,      \* the argument n
    key_caller, \* "direct", or "gen_key_pair"
    key_pass,   \* gen_key_pair's passphrase: None, or bytes
    key,        \* the loop's key, None before the first draw
    key_pc,     \* "idle" | "called" | "loop" | "have_sk" | "done"
    key_ret,    \* what the caller got
    \* ---- encode_varint (transaction.py) ----
    vi_i,       \* the argument, a Python int of any size
    vi_pc,      \* "idle" | "ready" | "done"
    vi_ret,     \* what encode_varint returned or raised
    \* ---- Script.encode and the encoders that contain it ----
    sc_script,  \* the Script
    sc_pc,      \* "idle" | "ready" | "done"
    sc_ret,     \* the outcomes of the encoders, None before the calls
    \* ---- Signature.encode of what sign returned (part2.py) ----
    enc_ret     \* the last signature encoded and the outcome, None before

invVars == <<inv_n, inv_p, eea, inv_pc, inv_ret>>
curveVars == <<cv_point, cv_pc, cv_ret>>
signVars == <<rng, calls, sig, sig_msg, ver_ret>>
txVars == <<tx, owner, pc, msgs, unsigned, sigs, tx_ret, id_ret, sh_ret>>

rmulVars == <<rm_self, rm_k0, rm_k2, rm_k, rm_result, rm_append, rm_pc,
              rm_ret, rm_sum>>
addVars == <<add_P, add_Q, add_pc, add_ret>>
keyVars == <<key_n, key_caller, key_pass, key, key_pc, key_ret>>
varintVars == <<vi_i, vi_pc, vi_ret>>
scriptVars == <<sc_script, sc_pc, sc_ret>>
encVars == <<enc_ret>>
groupVars == <<rmulVars, addVars>>
codecVars == <<varintVars, scriptVars>>

vars == <<invVars, curveVars, signVars, txVars, groupVars, keyVars,
          codecVars, encVars>>

-----------------------------------------------------------------------------
(* Values shared by every part of the model.                               *)

\* Python's None.
None == [none |-> TRUE]

\* The outcome of a call: a returned value, or a raised exception.
Ok(v) == [val |-> v]
Raise(e) == [exc |-> e]
IsOk(r) == DOMAIN r = {"val"}
IsExc(r) == DOMAIN r = {"exc"}

Abs(i) == IF i < 0 THEN -i ELSE i
Max(i, j) == IF i < j THEN j ELSE i

-----------------------------------------------------------------------------
(* curve.py: extended_euclidean_algorithm and inv.                         *)

\* Bounds of inv's arguments in the specification of the loop.
MaxAbsN == 12
MaxP == 13

\* r0, r1 = a, b; s0, s1 = 1, 0; t0, t1 = 0, 1
EEAInit(a, b) == [r0 |-> a, r1 |-> b, s0 |-> 1, s1 |-> 0, t0 |-> 0, t1 |-> 1]

\* A loop body that divides as C does (truncating toward zero), where
\* Python's // floors.
EEABodyTruncating(st) ==
    LET q == IF st.r0 < 0 THEN -((-st.r0) \div st.r1) ELSE st.r0 \div st.r1
    IN  [r0 |-> st.r1, r1 |-> st.r0 - st.r1 * q,
         s0 |-> st.s1, s1 |-> st.s0 - st.s1 * q,
         t0 |-> st.t1, t1 |-> st.t0 - st.t1 * q]

\* One pass of the while loop: q = r0 // r1 (floor division), then the three
\* simultaneous assignments.
EEABody(st) ==
    LET q == st.r0 \div st.r1
    IN  [r0 |-> st.r1, r1 |-> st.r0 - st.r1 * q,
         s0 |-> st.s1, s1 |-> st.s0 - st.s1 * q,
         t0 |-> st.t1, t1 |-> st.t0 - st.t1 * q]

RECURSIVE EEALoop(_)
EEALoop(st) == IF st.r1 # 0 THEN EEALoop(EEABody(st)) ELSE st

\* Returns (gcd, x, y).
extended_euclidean_algorithm(a, b) ==
    LET st == EEALoop(EEAInit(a, b)) IN <<st.r0, st.s0, st.t0>>

\* gcd, x, y = extended_euclidean_algorithm(n, p); return x % p
\* (no test of gcd: the value is returned whatever gcd is).
inv(n, p) == extended_euclidean_algorithm(n, p)[2] % p

\* The same call, one loop pass per step.
InvInit ==
    /\ inv_n \in -MaxAbsN .. MaxAbsN
    /\ inv_p \in 2 .. MaxP
    /\ eea = EEAInit(inv_n, inv_p)
    /\ inv_pc = "loop"
    /\ inv_ret = None

InvIdle ==
    /\ inv_n = 0
    /\ inv_p = 0
    /\ eea = EEAInit(0, 0)
    /\ inv_pc = "idle"
    /\ inv_ret = None

EEAStep ==
    /\ inv_pc = "loop"
    /\ eea.r1 # 0
    /\ eea' = EEABody(eea)
    /\ UNCHANGED <<inv_n, inv_p, inv_pc, inv_ret>>
    /\ UNCHANGED <<curveVars, signVars, txVars>>
    /\ UNCHANGED <<groupVars, keyVars, codecVars, encVars>>

InvReturn ==
    /\ inv_pc = "loop"
    /\ eea.r1 = 0
    /\ inv_ret' = Ok(eea.s0 % inv_p)
    /\ inv_pc' = "done"
    /\ UNCHANGED <<inv_n, inv_p, eea>>
    /\ UNCHANGED <<curveVars, signVars, txVars>>
    /\ UNCHANGED <<groupVars, keyVars, codecVars, encVars>>

InvNext == EEAStep \/ InvReturn

-----------------------------------------------------------------------------
(* curve.py: Curve, Point, Generator.                                      *)

\* INF = Point(None, None, None): the point whose three fields are None.
INF == [inf |-> TRUE]

Point(curve, x, y) == [curve |-> curve, x |-> x, y |-> y]

\* The curves of the model.  The first is the package's curve scaled down:
\* part1.py's bitcoin_curve is y^2 = x^3 + 7 over a 256-bit prime; here the
\* same equation over the field of 13 elements, whose group has the prime
\* order 7.  The others have other coefficients a and b.
bitcoin_curve == [p |-> 13, a |-> 0, b |-> 7]
Curves == {bitcoin_curve, [p |-> 7, a |-> 0, b |-> 3],
           [p |-> 11, a |-> 1, b |-> 6], [p |-> 5, a |-> 2, b |-> 1]}

\* Generator(G, n) of bitcoin_curve: BITCOIN.gen.
BITCOIN_gen == [G |-> Point(bitcoin_curve, 7, 5), n |-> 7]

\* Curve.point_is_on_curve: (y**2 - x**3 - 7) % self.p == 0
point_is_on_curve(curve, x, y) == (y * y - x * x * x - 7) % curve.p = 0

\* Point.is_on_curve: self.curve.point_is_on_curve(self.x, self.y); for INF
\* self.curve is None, and None has no attribute point_is_on_curve.
is_on_curve(P) ==
    IF P = INF THEN Raise("AttributeError")
    ELSE Ok(point_is_on_curve(P.curve, P.x, P.y))

\* A Point.__add__ without the case of P + (-P).
Point__add__no_inverse_case(self, other) ==
    IF self = INF THEN other
    ELSE IF other = INF THEN self
    ELSE
        LET m == IF self.x = other.x
                 THEN (3 * self.x * self.x + self.curve.a)
                          * inv(2 * self.y, self.curve.p)
                 ELSE (self.y - other.y) * inv(self.x - other.x, self.curve.p)
            rx == (m * m - self.x - other.x) % self.curve.p
            ry == (-(m * (rx - self.x) + self.y)) % self.curve.p
        IN  Point(self.curve, rx, ry)

\* A Point.__add__ whose tangent has the slope 2 * x**2 / (2 * y).
Point__add__slope_2(self, other) ==
    IF self = INF THEN other
    ELSE IF other = INF THEN self
    ELSE IF self.x = other.x /\ self.y # other.y THEN INF
    ELSE
        LET m == IF self.x = other.x
                 THEN (2 * self.x * self.x + self.curve.a)
                          * inv(2 * self.y, self.curve.p)
                 ELSE (self.y - other.y) * inv(self.x - other.x, self.curve.p)
            rx == (m * m - self.x - other.x) % self.curve.p
            ry == (-(m * (rx - self.x) + self.y)) % self.curve.p
        IN  Point(self.curve, rx, ry)

\* A Point.__add__ that returns other whenever one operand is INF.
Point__add__returns_other(self, other) ==
    IF self = INF \/ other = INF THEN other
    ELSE IF self.x = other.x /\ self.y # other.y THEN INF
    ELSE
        LET m == IF self.x = other.x
                 THEN (3 * self.x * self.x + self.curve.a)
                          * inv(2 * self.y, self.curve.p)
                 ELSE (self.y - other.y) * inv(self.x - other.x, self.curve.p)
            rx == (m * m - self.x - other.x) % self.curve.p
            ry == (-(m * (rx - self.x) + self.y)) % self.curve.p
        IN  Point(self.curve, rx, ry)

\* Point.__add__
Point__add__(self, other) ==
    IF self = INF THEN other
    ELSE IF other = INF THEN self
    ELSE IF self.x = other.x /\ self.y # other.y THEN INF
    ELSE
        LET m == IF self.x = other.x
                 THEN (3 * self.x * self.x + self.curve.a)
                          * inv(2 * self.y, self.curve.p)
                 ELSE (self.y - other.y) * inv(self.x - other.x, self.curve.p)
            rx == (m * m - self.x - other.x) % self.curve.p
            ry == (-(m * (rx - self.x) + self.y)) % self.curve.p
        IN  Point(self.curve, rx, ry)

\* The while loop of Point.__rmul__: result, append, k.
RECURSIVE RmulLoop(_, _, _)
RmulLoop(result, append, k) ==
    IF k = 0 THEN result
    ELSE RmulLoop(IF k % 2 = 1 THEN Point__add__(result, append) ELSE result,
                  Point__add__(append, append),
                  k \div 2)

\* Point.__rmul__: k * self.  assert isinstance(k, int) and k >= 0
Point__rmul__(k, self) ==
    IF k < 0 THEN Raise("AssertionError") ELSE Ok(RmulLoop(INF, self, k))

\* The points the on-curve predicate is asked about: INF, and every pair
\* of coordinates of every curve (part1.py draws x, y from range(p)).
CurveInit ==
    /\ cv_point \in {INF} \cup
           UNION {{Point(c, x, y) : x \in 0 .. c.p - 1, y \in 0 .. c.p - 1}
                  : c \in Curves}
    /\ cv_pc = "ready"
    /\ cv_ret = None

CurveIdle ==
    /\ cv_point = INF
    /\ cv_pc = "idle"
    /\ cv_ret = None

\* P.is_on_curve()
CallIsOnCurve ==
    /\ cv_pc = "ready"
    /\ cv_ret' = is_on_curve(cv_point)
    /\ cv_pc' = "done"
    /\ UNCHANGED cv_point
    /\ UNCHANGED <<invVars, signVars, txVars>>
    /\ UNCHANGED <<groupVars, keyVars, codecVars, encVars>>

CurveNext == CallIsOnCurve

-----------------------------------------------------------------------------
(* curve.py: a call of Point.__rmul__ pass by pass, and the sum of two     *)
(* multiples of one point.                                                 *)

\* The largest scalar of the model (the order of G is 7: scalars beyond it
\* wrap around the group).
MaxK == 8

\* The points G generates: 0*G = INF, 1*G, ..., (n-1)*G.
Subgroup ==
    {Point__rmul__(j, BITCOIN_gen.G).val : j \in 0 .. BITCOIN_gen.n - 1}

\* A loop body that doubles append before it adds it.
RmulBodyDoublingFirst(st) ==
    LET doubled == Point__add__(st.append, st.append)
    IN  [result |-> IF st.k % 2 = 1 THEN Point__add__(st.result, doubled)
                    ELSE st.result,
         append |-> doubled,
         k |-> st.k \div 2]

\* One pass of the while loop of Point.__rmul__ (k >= 0):
\*     if k & 1: result += append
\*     append += append
\*     k >>= 1
RmulBody(st) ==
    [result |-> IF st.k % 2 = 1 THEN Point__add__(st.result, st.append)
                ELSE st.result,
     append |-> Point__add__(st.append, st.append),
     k |-> st.k \div 2]

RmulInit ==
    /\ rm_self \in Subgroup
    /\ rm_k0 \in -1 .. MaxK
    /\ rm_k2 \in 1 .. BITCOIN_gen.n - 1
    /\ rm_k = rm_k0
    /\ rm_result = INF
    /\ rm_append = INF
    /\ rm_pc = "called"
    /\ rm_ret = None
    /\ rm_sum = None

RmulIdle ==
    /\ rm_self = INF
    /\ rm_k0 = 0
    /\ rm_k2 = 0
    /\ rm_k = 0
    /\ rm_result = INF
    /\ rm_append = INF
    /\ rm_pc = "idle"
    /\ rm_ret = None
    /\ rm_sum = None

\* assert isinstance(k, int) and k >= 0; result = INF; append = self
RmulEnter ==
    /\ rm_pc = "called"
    /\ IF rm_k0 < 0
       THEN /\ rm_ret' = Raise("AssertionError")
            /\ rm_pc' = "returned"
            /\ UNCHANGED <<rm_result, rm_append>>
       ELSE /\ rm_result' = INF
            /\ rm_append' = rm_self
            /\ rm_pc' = "loop"
            /\ UNCHANGED rm_ret
    /\ UNCHANGED <<rm_self, rm_k0, rm_k2, rm_k, rm_sum>>
    /\ UNCHANGED <<invVars, curveVars, signVars, txVars>>
    /\ UNCHANGED <<addVars, keyVars, codecVars, encVars>>

\* while k: one pass
RmulStep ==
    /\ rm_pc = "loop"
    /\ rm_k # 0
    /\ LET st == RmulBody([result |-> rm_result, append |-> rm_append,
                           k |-> rm_k])
       IN  /\ rm_result' = st.result
           /\ rm_append' = st.append
           /\ rm_k' = st.k
    /\ UNCHANGED <<rm_self, rm_k0, rm_k2, rm_pc, rm_ret, rm_sum>>
    /\ UNCHANGED <<invVars, curveVars, signVars, txVars>>
    /\ UNCHANGED <<addVars, keyVars, codecVars, encVars>>

\* return result
RmulReturn ==
    /\ rm_pc = "loop"
    /\ rm_k = 0
    /\ rm_ret' = Ok(rm_result)
    /\ rm_pc' = "returned"
    /\ UNCHANGED <<rm_self, rm_k0, rm_k2, rm_k, rm_result, rm_append, rm_sum>>
    /\ UNCHANGED <<invVars, curveVars, signVars, txVars>>
    /\ UNCHANGED <<addVars, keyVars, codecVars, encVars>>

\* k0 * self + k2 * self
AddMultiple ==
    /\ rm_pc = "returned"
    /\ IsOk(rm_ret)
    /\ rm_sum' = Point__add__(rm_ret.val, Point__rmul__(rm_k2, rm_self).val)
    /\ rm_pc' = "summed"
    /\ UNCHANGED <<rm_self, rm_k0, rm_k2, rm_k, rm_result, rm_append, rm_ret>>
    /\ UNCHANGED <<invVars, curveVars, signVars, txVars>>
    /\ UNCHANGED <<addVars, keyVars, codecVars, encVars>>

RmulNext ==
    \/ RmulEnter
    \/ RmulStep
    \/ RmulReturn
    \/ AddMultiple

-----------------------------------------------------------------------------
(* curve.py: a call of Point.__add__.                                      *)

\* The curves whose points are added: those of the on-curve predicate, and
\* y^2 = x^3 + 1 over the field of 5 elements, which has a point with
\* y = 0.
AddCurves == Curves \cup {[p |-> 5, a |-> 0, b |-> 1]}

\* The affine points of curve c (Curve's docstring: the points that satisfy
\* y^2 = x^3 + a*x + b (mod p)).
PointsOf(c) ==
    {Point(c, x, y) : x \in 0 .. c.p - 1, y \in 0 .. c.p - 1}

AffinePoints(c) ==
    {P \in PointsOf(c) :
        (P.y * P.y) % c.p = (P.x * P.x * P.x + c.a * P.x + c.b) % c.p}

AddInit ==
    /\ \E c \in AddCurves :
           /\ add_P \in AffinePoints(c) \cup {INF}
           /\ add_Q \in AffinePoints(c) \cup {INF}
    /\ add_pc = "ready"
    /\ add_ret = None

AddIdle ==
    /\ add_P = INF
    /\ add_Q = INF
    /\ add_pc = "idle"
    /\ add_ret = None

\* P + Q
CallAdd ==
    /\ add_pc = "ready"
    /\ add_ret' = Ok(Point__add__(add_P, add_Q))
    /\ add_pc' = "done"
    /\ UNCHANGED <<add_P, add_Q>>
    /\ UNCHANGED <<invVars, curveVars, signVars, txVars>>
    /\ UNCHANGED <<rmulVars, keyVars, codecVars, encVars>>

AddNext == CallAdd

-----------------------------------------------------------------------------
(* sha256.py is not among the sources: a hash with a fixed-length digest,  *)
(* a deterministic function of its input bytes.                            *)

\* The bytes b[lo .. hi] mixed into one number, every byte weighted by its
\* place: halves are mixed and combined.
RECURSIVE HashMix(_, _, _)
HashMix(b, lo, hi) ==
    IF lo > hi THEN 0
    ELSE IF lo = hi THEN ((b[lo] + 1) * (131 * lo + 7)) % 65521
    ELSE LET mid == (lo + hi) \div 2
         IN  (31 * HashMix(b, lo, mid) + HashMix(b, mid + 1, hi)) % 65521

\* sha256(b): the digest, here two bytes.
sha256(b) ==
    LET h == (5381 + HashMix(b, 1, Len(b))) % 65521
    IN  <<h \div 256, h % 256>>

\* int.from_bytes(b, 'big')
RECURSIVE IntFromBytesBig(_, _)
IntFromBytesBig(acc, b) ==
    IF b = <<>> THEN acc ELSE IntFromBytesBig(acc * 256 + Head(b), Tail(b))

int_from_bytes(b) == IntFromBytesBig(0, b)

-----------------------------------------------------------------------------
(* Module random: one generator for the whole process, which random.seed   *)
(* resets and random.randrange reads and advances.  The generator is a     *)
(* deterministic function of its state; here a full-period congruential    *)
(* generator of RngMod states.                                             *)

RngMod == 8

\* random.seed(v)
RngSeed(v) == v % RngMod

\* The state after one draw.
RngAdvance(g) == (5 * g + 3) % RngMod

\* random.randrange(lo, hi) drawn in state g.
randrange(g, lo, hi) == lo + (RngAdvance(g) % (hi - lo))

-----------------------------------------------------------------------------
(* signature.py: Signature, sign, verify.                                  *)

Signature(r, s) == [r |-> r, s |-> s]

\* A Python float holds MantissaBits significant bits (53 in CPython) and
\* BITCOIN.gen.n has 256, so n / 2 is not n's half but the nearest float,
\* which is 2^255.  The model scales both: n has 3 bits, a float 2.
MantissaBits == 2

RECURSIVE BitLength(_)
BitLength(i) == IF i = 0 THEN 0 ELSE 1 + BitLength(i \div 2)

\* The float nearest to the integer i >= 0, ties to the even mantissa.
FloatOf(i) ==
    IF BitLength(i) <= MantissaBits THEN i
    ELSE LET ulp == 2 ^ (BitLength(i) - MantissaBits)
             q == i \div ulp
             rem == i % ulp
         IN  IF 2 * rem > ulp \/ (2 * rem = ulp /\ q % 2 = 1)
             THEN (q + 1) * ulp
             ELSE q * ulp

\* s > n / 2: true division gives the float nearest to n's half, which is
\* half the float nearest to n; the comparison of the int s with it is exact.
GreaterThanHalf(s, n) == 2 * s > FloatOf(n)

\* sign(secret_key, message), called when the generator is in state g.
sign(secret_key, message, g) ==
    LET n == BITCOIN_gen.n
        z == int_from_bytes(sha256(sha256(message)))
        sk == randrange(g, 1, n)
        P == Point__rmul__(sk, BITCOIN_gen.G).val
        r == P.x
        s == (inv(sk, n) * (z + secret_key * r)) % n
    IN  Signature(r, IF GreaterThanHalf(s, n) THEN n - s ELSE s)

\* verify(public_key, message, sig): the body is "pass".
verify(public_key, message, sg) == "None"

\* Bounds of the signing specification.
MaxCalls == 2
MaxMsgByte == 7

Messages == {<<b>> : b \in 0 .. MaxMsgByte}
SecretKeys == 1 .. BITCOIN_gen.n - 1

SignInit ==
    /\ rng \in 0 .. RngMod - 1
    /\ calls = <<>>
    /\ sig = None
    /\ sig_msg = <<>>
    /\ ver_ret = None

SignIdle ==
    /\ rng = 0
    /\ calls = <<>>
    /\ sig = None
    /\ sig_msg = <<>>
    /\ ver_ret = None

\* random.seed(v), as part2.py, part3.py and part4.py call it before sign.
Seed(v) ==
    /\ rng' = RngSeed(v)
    /\ UNCHANGED <<calls, sig, sig_msg, ver_ret>>
    /\ UNCHANGED <<invVars, curveVars, txVars>>
    /\ UNCHANGED <<groupVars, keyVars, codecVars, encVars>>

\* A call of sign with the shared generator in state g: the signature, the
\* draw from the generator, and the history of the call.
DoSign(secret_key, msg, g) ==
    /\ sig' = sign(secret_key, msg, g)
    /\ sig_msg' = msg
    /\ calls' = Append(calls, [secret_key |-> secret_key,
                               k |-> randrange(g, 1, BITCOIN_gen.n),
                               g |-> g])
    /\ rng' = RngAdvance(g)
    /\ ver_ret' = None

\* sig = sign(secret_key, message)
Sign(secret_key, msg) ==
    /\ Len(calls) < MaxCalls
    /\ DoSign(secret_key, msg, rng)
    /\ enc_ret' = None
    /\ UNCHANGED <<invVars, curveVars, txVars>>
    /\ UNCHANGED <<groupVars, keyVars, codecVars>>

\* verify(pk, message, sig) for the signature just made, pk = secret_key * G.
Verify ==
    /\ sig # None
    /\ ver_ret = None
    /\ LET pk == Point__rmul__(calls[Len(calls)].secret_key, BITCOIN_gen.G).val
       IN  ver_ret' = Ok(verify(pk, sig_msg, sig))
    /\ UNCHANGED <<rng, calls, sig, sig_msg>>
    /\ UNCHANGED <<invVars, curveVars, txVars>>
    /\ UNCHANGED <<groupVars, keyVars, codecVars, encVars>>

-----------------------------------------------------------------------------
(* Bytes.                                                                  *)

\* b[::-1]
Reverse(b) == [i \in 1 .. Len(b) |-> b[Len(b) + 1 - i]]

\* i >> (8 * nbytes) for i >= 0: the integers of the model are below 2^31,
\* so four bytes or more shift everything out.
ShiftRightBytes(i, nbytes) ==
    IF nbytes >= 4 THEN 0 ELSE i \div (256 ^ nbytes)

\* The nbytes low bytes of i, lowest first.
LittleEndian(i, nbytes) ==
    [k \in 1 .. nbytes |-> ShiftRightBytes(i, k - 1) % 256]

\* int.to_bytes(i, nbytes, byteorder): OverflowError when i is negative or
\* does not fit in nbytes bytes.
to_bytes(i, nbytes, byteorder) ==
    IF i < 0 \/ ShiftRightBytes(i, nbytes) # 0 THEN Raise("OverflowError")
    ELSE IF byteorder = "little" THEN Ok(LittleEndian(i, nbytes))
    ELSE Ok(Reverse(LittleEndian(i, nbytes)))

\* bytes.lstrip(b'\x00')
lstrip0(b) ==
    LET nonzero == {i \in 1 .. Len(b) : b[i] # 0}
    IN  IF nonzero = {} THEN <<>>
        ELSE SubSeq(b, CHOOSE i \in nonzero : \A j \in nonzero : i <= j, Len(b))

RECURSIVE Flatten(_)
Flatten(parts) ==
    IF parts = <<>> THEN <<>> ELSE Head(parts) \o Flatten(Tail(parts))

\* b''.join(out) where the items of out are computed left to right: the
\* first exception raised while computing an item is the outcome.
Join(parts) ==
    IF \E i \in 1 .. Len(parts) : IsExc(parts[i])
    THEN parts[CHOOSE i \in 1 .. Len(parts) :
                   IsExc(parts[i]) /\ \A j \in 1 .. i - 1 : IsOk(parts[j])]
    ELSE Ok(Flatten([i \in 1 .. Len(parts) |-> parts[i].val]))

-----------------------------------------------------------------------------
(* ripemd160.py is not among the sources: as sha256, with a digest of its  *)
(* own.                                                                    *)

ripemd160(b) ==
    LET h == (40503 + 7 * HashMix(b, 1, Len(b))) % 65521
    IN  <<h % 256, h \div 256>>

-----------------------------------------------------------------------------
(* signature.py: Signature.encode (DER).                                   *)

\* dern(n): the minimal big-endian bytes of n, 0x00 before a first byte
\* >= 0x80.  nb[0] of the empty bytes (n = 0) is an IndexError.
dern(n) ==
    LET nb32 == to_bytes(n, 32, "big")
    IN  IF IsExc(nb32) THEN nb32
        ELSE LET nb == lstrip0(nb32.val)
             IN  IF nb = <<>> THEN Raise("IndexError")
                 ELSE Ok((IF nb[1] >= 128 THEN <<0>> ELSE <<>>) \o nb)

\* bytes([...]): every item must be in range(256).
bytes_of(items) ==
    IF \E i \in 1 .. Len(items) : items[i] < 0 \/ items[i] > 255
    THEN Raise("ValueError") ELSE Ok(items)

Signature_encode(self) ==
    LET rb == dern(self.r)
        sb == IF IsExc(rb) THEN rb ELSE dern(self.s)
    IN  IF IsExc(rb) THEN rb
        ELSE IF IsExc(sb) THEN sb
        ELSE LET content == Join(<<bytes_of(<<2, Len(rb.val)>>), rb,
                                   bytes_of(<<2, Len(sb.val)>>), sb>>)
             IN  IF IsExc(content) THEN content
                 ELSE Join(<<bytes_of(<<48, Len(content.val)>>), content>>)

\* sig_bytes = sig.encode(), of the signature sign returned
EncodeSig ==
    /\ sig # None
    /\ enc_ret = None
    /\ enc_ret' = [sig |-> sig, ret |-> Signature_encode(sig)]
    /\ UNCHANGED signVars
    /\ UNCHANGED <<invVars, curveVars, txVars>>
    /\ UNCHANGED <<groupVars, keyVars, codecVars>>

SignNext ==
    \/ EncodeSig
    \/ \E v \in 0 .. RngMod - 1 : Seed(v)
    \/ \E secret_key \in SecretKeys, msg \in Messages :
           Sign(secret_key, msg)
    \/ Verify

-----------------------------------------------------------------------------
(* identity.py: PublicKey.encode and the Identity of a wallet.             *)

\* PublicKey.encode(compressed, hash160)
PublicKey_encode(self, compressed, hash160) ==
    LET pkb == IF compressed
               THEN (IF self.y % 2 = 0 THEN <<2>> ELSE <<3>>)
                        \o to_bytes(self.x, 32, "big").val
               ELSE <<4>> \o to_bytes(self.x, 32, "big").val
                          \o to_bytes(self.y, 32, "big").val
    IN  IF hash160 THEN ripemd160(sha256(pkb)) ELSE pkb

\* create_identity for the secret key sk (gen_key_pair asserts
\* 1 <= sk < n): the key pair and the hash of the compressed public key.
Identity(sk) ==
    LET pk == Point__rmul__(sk, BITCOIN_gen.G).val
    IN  [secrey_key |-> sk, public_key |-> pk,
         pkb_hash |-> PublicKey_encode(pk, TRUE, TRUE)]

-----------------------------------------------------------------------------
(* identity.py: gen_random_secret_key and gen_key_pair.                    *)

\* The orders gen_random_secret_key is called with are 2 .. MaxOrder; the
\* integer of the bytes os.urandom returns is in 0 .. MaxDraw (in the
\* source, below 2^256, which is more than the order of G).
MaxOrder == 9
MaxDraw == 11

\* A test that lets 0 and n through.
KeyIsValidInclusive(k, n) == 0 <= k /\ k <= n

\* 1 <= key < n
KeyIsValid(k, n) == 1 <= k /\ k < n

KeyInit ==
    /\ \/ /\ key_caller = "direct"
          /\ key_n \in 2 .. MaxOrder
          /\ key_pass = None
          /\ key_pc = "loop"
       \/ /\ key_caller = "gen_key_pair"
          /\ key_n = BITCOIN_gen.n
          /\ key_pass \in {None} \cup {Ok(<<b>>) : b \in 0 .. MaxDraw}
          /\ key_pc = "called"
    /\ key = None
    /\ key_ret = None

KeyIdle ==
    /\ key_caller = "none"
    /\ key_n = 0
    /\ key_pass = None
    /\ key = None
    /\ key_pc = "idle"
    /\ key_ret = None

\* gen_key_pair: if passphrase is None:
\*     sk = gen_random_secret_key(BITCOIN.gen.n)
\* else: sk = int.from_bytes(passphrase, 'big')
GenKeyPairEnter ==
    /\ key_pc = "called"
    /\ IF key_pass = None
       THEN /\ key_pc' = "loop"
            /\ UNCHANGED key
       ELSE /\ key' = Ok(int_from_bytes(key_pass.val))
            /\ key_pc' = "have_sk"
    /\ UNCHANGED <<key_n, key_caller, key_pass, key_ret>>
    /\ UNCHANGED <<invVars, curveVars, signVars, txVars>>
    /\ UNCHANGED <<groupVars, codecVars, encVars>>

\* One pass of the loop of gen_random_secret_key, os.urandom giving v:
\*     key = int.from_bytes(os.urandom(32), 'big')
\*     if 1 <= key < n: break
\* and, out of the loop, return key.
Draw(v) ==
    /\ key_pc = "loop"
    /\ key' = Ok(v)
    /\ IF KeyIsValid(v, key_n)
       THEN IF key_caller = "direct"
            THEN /\ key_ret' = Ok(v)
                 /\ key_pc' = "done"
            ELSE /\ key_pc' = "have_sk"
                 /\ UNCHANGED key_ret
       ELSE UNCHANGED <<key_pc, key_ret>>
    /\ UNCHANGED <<key_n, key_caller, key_pass>>
    /\ UNCHANGED <<invVars, curveVars, signVars, txVars>>
    /\ UNCHANGED <<groupVars, codecVars, encVars>>

\* gen_key_pair: assert 1 <= sk < BITCOIN.gen.n
\*               return sk, PublicKey.from_sk(sk)
GenKeyPairReturn ==
    /\ key_pc = "have_sk"
    /\ key_ret' = IF 1 <= key.val /\ key.val < BITCOIN_gen.n
                  THEN Ok(<<key.val,
                            Point__rmul__(key.val, BITCOIN_gen.G).val>>)
                  ELSE Raise("AssertionError")
    /\ key_pc' = "done"
    /\ UNCHANGED <<key_n, key_caller, key_pass, key>>
    /\ UNCHANGED <<invVars, curveVars, signVars, txVars>>
    /\ UNCHANGED <<groupVars, codecVars, encVars>>

KeyNext ==
    \/ GenKeyPairEnter
    \/ \E v \in 0 .. MaxDraw : Draw(v)
    \/ GenKeyPairReturn

-----------------------------------------------------------------------------
(* transaction.py: encode_int, encode_varint, Script, TxIn, TxOut, Tx.     *)

\* encode_int(i, nbytes, encoding='little')
encode_int(i, nbytes) == to_bytes(i, nbytes, "little")

\* encode_varint's argument is a Python int of any size, and its branches
\* are taken at 2^32 and 2^64, beyond the integers of TLC: the argument is
\* written in base 256, lowest digit first, the highest digit not 0 (zero
\* is the empty sequence).
Wide(i) ==
    LET b == LittleEndian(i, 4)
        nonzero == {k \in 1 .. 4 : b[k] # 0}
    IN  IF nonzero = {} THEN <<>>
        ELSE SubSeq(b, 1, CHOOSE k \in nonzero : \A j \in nonzero : j <= k)

\* i < j
WideLess(i, j) ==
    \/ Len(i) < Len(j)
    \/ /\ Len(i) = Len(j)
       /\ \E k \in 1 .. Len(i) :
              /\ i[k] < j[k]
              /\ \A h \in k + 1 .. Len(i) : i[h] = j[h]

\* encode_int(i, nbytes) of such an int: i.to_bytes(nbytes, 'little'),
\* OverflowError when i does not fit.
encode_int_wide(i, nbytes) ==
    IF Len(i) > nbytes THEN Raise("OverflowError")
    ELSE Ok([k \in 1 .. nbytes |-> IF k <= Len(i) THEN i[k] ELSE 0])

\* An encode_varint whose first test is i <= 0xfd.
encode_varint_fd_inclusive(i) ==
    IF WideLess(i, <<254>>) THEN Ok(encode_int_wide(i, 1).val)
    ELSE IF WideLess(i, <<0, 0, 1>>)
         THEN Join(<<Ok(<<253>>), encode_int_wide(i, 2)>>)
    ELSE IF WideLess(i, <<0, 0, 0, 0, 1>>)
         THEN Join(<<Ok(<<254>>), encode_int_wide(i, 4)>>)
    ELSE IF WideLess(i, <<0, 0, 0, 0, 0, 0, 0, 0, 1>>)
         THEN Join(<<Ok(<<255>>), encode_int_wide(i, 8)>>)
    ELSE Raise("ValueError")

\* encode_varint(i), i >= 0.  0xfd is <<253>>, 0x10000 is <<0, 0, 1>>,
\* 0x100000000 is <<0, 0, 0, 0, 1>>, 0x10000000000000000 has eight zeros.
\* bytes([i]) of i < 0xfd is the one byte i.
encode_varint(i) ==
    IF WideLess(i, <<253>>) THEN Ok(encode_int_wide(i, 1).val)
    ELSE IF WideLess(i, <<0, 0, 1>>)
         THEN Join(<<Ok(<<253>>), encode_int_wide(i, 2)>>)
    ELSE IF WideLess(i, <<0, 0, 0, 0, 1>>)
         THEN Join(<<Ok(<<254>>), encode_int_wide(i, 4)>>)
    ELSE IF WideLess(i, <<0, 0, 0, 0, 0, 0, 0, 0, 1>>)
         THEN Join(<<Ok(<<255>>), encode_int_wide(i, 8)>>)
    ELSE Raise("ValueError")

\* The arguments of the model: every length up to MaxVarintLen digits, the
\* lowest digit and the others from the values next to the thresholds.
MaxVarintLen == 9
LowDigits == {0, 1, 252, 253, 254, 255}
HighDigits == {0, 1, 255}

VarintInit ==
    /\ \E m \in 0 .. MaxVarintLen :
           vi_i \in {d \in UNION {{<<low>> \o rest :
                                      rest \in [1 .. m - 1 -> HighDigits]}
                                  : low \in LowDigits} :
                        Len(d) = m /\ d[m] # 0} \cup {<<>>}
    /\ vi_pc = "ready"
    /\ vi_ret = None

VarintIdle ==
    /\ vi_i = <<>>
    /\ vi_pc = "idle"
    /\ vi_ret = None

\* encode_varint(i)
CallEncodeVarint ==
    /\ vi_pc = "ready"
    /\ vi_ret' = encode_varint(vi_i)
    /\ vi_pc' = "done"
    /\ UNCHANGED vi_i
    /\ UNCHANGED <<invVars, curveVars, signVars, txVars>>
    /\ UNCHANGED <<groupVars, keyVars, scriptVars, encVars>>

VarintNext == CallEncodeVarint

\* The elements of Script.cmds: an int (an opcode) or bytes (a push).
Op(code) == [op |-> code]
Data(b) == [data |-> b]
IsOp(cmd) == DOMAIN cmd = {"op"}

Script(cmds) == [cmds |-> cmds]

\* A Script.encode step that lets a push of 75 bytes through.
Script_encode_cmd_75(cmd) ==
    IF IsOp(cmd) THEN encode_int(cmd.op, 1)
    ELSE IF ~(Len(cmd.data) <= 75) THEN Raise("AssertionError")
    ELSE Join(<<encode_int(Len(cmd.data), 1), Ok(cmd.data)>>)

\* What Script.encode appends to out for one cmd.
Script_encode_cmd(cmd) ==
    IF IsOp(cmd) THEN encode_int(cmd.op, 1)
    ELSE IF ~(Len(cmd.data) < 75) THEN Raise("AssertionError")
    ELSE Join(<<encode_int(Len(cmd.data), 1), Ok(cmd.data)>>)

\* Script.encode: ret = b''.join(out); encode_varint(len(ret)) + ret
Script_encode(self) ==
    LET ret == Join([i \in 1 .. Len(self.cmds) |->
                         Script_encode_cmd(self.cmds[i])])
    IN  IF IsExc(ret) THEN ret
        ELSE Join(<<encode_varint(Wide(Len(ret.val))), ret>>)

TxIn(prev_tx, prev_index, prev_tx_script_pubkey, script_sig, sequence) ==
    [net |-> "TEST", prev_tx |-> prev_tx, prev_index |-> prev_index,
     prev_tx_script_pubkey |-> prev_tx_script_pubkey,
     script_sig |-> script_sig, sequence |-> sequence]

\* A TxIn.encode that, told to override with the empty script, keeps the
\* input's own script_sig when it has one.
TxIn_encode_keeping_script_sig(self, script_override) ==
    Join(<<Ok(Reverse(self.prev_tx)),
           encode_int(self.prev_index, 4),
           IF script_override = "True"
               THEN Script_encode(self.prev_tx_script_pubkey)
           ELSE IF self.script_sig = None THEN Script_encode(Script(<<>>))
           ELSE Script_encode(self.script_sig),
           encode_int(self.sequence, 4)>>)

\* A TxIn.encode that writes the empty script for a script_sig of None.
TxIn_encode_none_as_empty(self, script_override) ==
    Join(<<Ok(Reverse(self.prev_tx)),
           encode_int(self.prev_index, 4),
           IF script_override = "None"
               THEN (IF self.script_sig = None THEN Script_encode(Script(<<>>))
                     ELSE Script_encode(self.script_sig))
           ELSE IF script_override = "True"
               THEN Script_encode(self.prev_tx_script_pubkey)
           ELSE Script_encode(Script(<<>>)),
           encode_int(self.sequence, 4)>>)

\* TxIn.encode(script_override): script_override is "None", "True" or
\* "False" (Python's None, True, False); anything else is a ValueError.
\* self.script_sig.encode() of a script_sig that is None is an
\* AttributeError.
TxIn_encode(self, script_override) ==
    Join(<<Ok(Reverse(self.prev_tx)),
           encode_int(self.prev_index, 4),
           IF script_override = "None"
               THEN (IF self.script_sig = None THEN Raise("AttributeError")
                     ELSE Script_encode(self.script_sig))
           ELSE IF script_override = "True"
               THEN (IF self.prev_tx_script_pubkey = None
                     THEN Raise("AssertionError")
                     ELSE Script_encode(self.prev_tx_script_pubkey))
           ELSE IF script_override = "False"
               THEN Script_encode(Script(<<>>))
           ELSE Raise("ValueError"),
           encode_int(self.sequence, 4)>>)

TxOut(amount, script_pubkey) ==
    [amount |-> amount, script_pubkey |-> script_pubkey]

TxOut_encode(self) ==
    Join(<<encode_int(self.amount, 8), Script_encode(self.script_pubkey)>>)

\* The value of the argument sig_index: a Python int k is PyInt(k), Python's
\* None is None.  Python's == of an int and None is False, as the equality
\* of these records is.
PyInt(k) == [int |-> k]

\* A trailer written for an index of an input only.
SighashTrailerInRangeOnly(sig_index) ==
    IF sig_index # PyInt(-1) /\ sig_index # None /\ sig_index.int >= 0
    THEN encode_int(1, 4) ELSE Ok(<<>>)

\* encode_int(1, 4) if sig_index != -1 else b''
SighashTrailer(sig_index) ==
    IF sig_index # PyInt(-1) THEN encode_int(1, 4) ELSE Ok(<<>>)

\* An override that is True for every input but the one being signed.
ScriptOverrideSwapped(sig_index, i) ==
    IF sig_index # PyInt(i) THEN "True" ELSE "False"

\* script_override=(sig_index == i), i counting the inputs from 0.
ScriptOverride(sig_index, i) ==
    IF sig_index = PyInt(i) THEN "True" ELSE "False"

\* Tx.encode(sig_index=-1)
Tx_encode(self, sig_index) ==
    Join(<<encode_int(self.version, 4),
           encode_varint(Wide(Len(self.tx_ins))),
           Join([i \in 1 .. Len(self.tx_ins) |->
                    IF sig_index = PyInt(-1)
                    THEN TxIn_encode(self.tx_ins[i], "None")
                    ELSE TxIn_encode(self.tx_ins[i],
                                     ScriptOverride(sig_index, i - 1))]),
           encode_varint(Wide(Len(self.tx_outs))),
           Join([i \in 1 .. Len(self.tx_outs) |->
                    TxOut_encode(self.tx_outs[i])]),
           encode_int(self.locktime, 4),
           SighashTrailer(sig_index)>>)

\* bytes.hex()
HexDigit(d) == <<"0", "1", "2", "3", "4", "5", "6", "7",
                 "8", "9", "a", "b", "c", "d", "e", "f">>[d + 1]

hex(b) ==
    [i \in 1 .. 2 * Len(b) |->
        IF i % 2 = 1 THEN HexDigit(b[(i + 1) \div 2] \div 16)
        ELSE HexDigit(b[i \div 2] % 16)]

\* A Tx.id that hashes the message signed for the first input.
Tx_id_of_message(self) ==
    LET e == Tx_encode(self, PyInt(0))
    IN  IF IsExc(e) THEN e ELSE Ok(hex(Reverse(sha256(sha256(e.val)))))

\* Tx.id(): sha256(sha256(self.encode()))[::-1].hex()
Tx_id(self) ==
    LET e == Tx_encode(self, PyInt(-1))
    IN  IF IsExc(e) THEN e ELSE Ok(hex(Reverse(sha256(sha256(e.val)))))

-----------------------------------------------------------------------------
(* The signing flow of part2.py, part3.py and part4.py: a transaction is   *)
(* constructed with every script_sig None; the signer of input i computes  *)
(* message = tx.encode(sig_index=i), seeds the generator with              *)
(* sha256(message) and signs, then encodes the signature and assigns       *)
(* tx.tx_ins[i].script_sig.  The signers of different inputs are           *)
(* independent: their steps interleave.                                    *)

\* Bound on the number of inputs of the transaction.
MaxInputs == 2

\* The secret keys of the wallets the inputs spend from.
WalletKeys == {3, 5}

\* OP_DUP, OP_HASH160, <public key hash>, OP_EQUALVERIFY, OP_CHECKSIG
P2PKH(pkb_hash) ==
    Script(<<Op(118), Op(169), Data(pkb_hash), Op(136), Op(172)>>)

\* prev_tx: the id of the transaction the inputs spend (32 bytes in
\* part3.py; its first four here).
PrevTx == <<134, 241, 154, 188>>

\* The outputs: part3.py's single output, part2.py's two.
TxOutsChoices ==
    {<<TxOut(95000, P2PKH(Identity(6).pkb_hash))>>,
     <<TxOut(50000, P2PKH(Identity(3).pkb_hash)),
       TxOut(47500, P2PKH(Identity(5).pkb_hash))>>}

\* A script_sig that is not the signer's: any Script can be assigned.
ForeignScripts == {Script(<<Data(<<1, 2, 3>>), Op(172)>>)}

Inputs == 1 .. Len(tx.tx_ins)

\* Tx(version=1, tx_ins=[TxIn(NET, prev_tx, prev_index, script)...],
\* tx_outs=[...]): script_sig defaults to None, locktime to 0.  sequence
\* defaults to 0xffffffff, which TLC's integers do not hold: 0x7fffffff.
\* Every signer seeds the generator before it signs, so the state the
\* generator starts in is never read.
TxInit ==
    /\ \E n_in \in 1 .. MaxInputs :
       \E own \in [1 .. n_in -> WalletKeys] :
       \E outs \in TxOutsChoices :
          /\ owner = own
          /\ tx = [version |-> 1,
                   tx_ins |-> [i \in 1 .. n_in |->
                       TxIn(PrevTx, i - 1, P2PKH(Identity(own[i]).pkb_hash),
                            None, 2147483647)],
                   tx_outs |-> outs,
                   locktime |-> 0]
    /\ pc = [i \in Inputs |-> "start"]
    /\ msgs = [i \in Inputs |-> None]
    /\ unsigned = [i \in Inputs |-> Tx_encode(tx, PyInt(i - 1))]
    /\ sigs = [i \in Inputs |-> None]
    /\ tx_ret = None
    /\ id_ret = None
    /\ sh_ret = None
    /\ SignIdle

TxIdle ==
    /\ tx = [version |-> 1, tx_ins |-> <<>>, tx_outs |-> <<>>, locktime |-> 0]
    /\ owner = <<>>
    /\ pc = <<>>
    /\ msgs = <<>>
    /\ unsigned = <<>>
    /\ sigs = <<>>
    /\ tx_ret = None
    /\ id_ret = None
    /\ sh_ret = None

\* message = tx.encode(sig_index=i)
\* random.seed(int.from_bytes(sha256(message), 'big'))
\* sig = sign(wallet.secrey_key, message)
SignInput(i) ==
    /\ pc[i] = "start"
    /\ LET m == Tx_encode(tx, PyInt(i - 1))
       IN  /\ msgs' = [msgs EXCEPT ![i] = m]
           /\ IF IsExc(m)
              THEN /\ pc' = [pc EXCEPT ![i] = "crashed"]
                   /\ UNCHANGED <<sigs, signVars>>
              ELSE /\ DoSign(owner[i], m.val,
                             RngSeed(int_from_bytes(sha256(m.val))))
                   /\ sigs' = [sigs EXCEPT ![i] = sig']
                   /\ pc' = [pc EXCEPT ![i] = "signed"]
    /\ UNCHANGED <<tx, owner, unsigned, tx_ret, id_ret, sh_ret>>
    /\ UNCHANGED <<invVars, curveVars>>
    /\ UNCHANGED <<groupVars, keyVars, codecVars, encVars>>

\* sig_bytes_and_type = sig.encode() + b'\x01'
\* pubkey_bytes = wallet.public_key.encode(compressed=True, hash160=False)
\* tx.tx_ins[i].script_sig = Script([sig_bytes_and_type, pubkey_bytes])
\* An exception of sig.encode() ends the signer before the assignment.
SetScriptSig(i) ==
    /\ pc[i] = "signed"
    /\ LET der == Signature_encode(sigs[i])
           pubkey_bytes ==
               PublicKey_encode(Identity(owner[i]).public_key, TRUE, FALSE)
       IN  IF IsExc(der)
           THEN /\ pc' = [pc EXCEPT ![i] = "crashed"]
                /\ UNCHANGED <<tx, tx_ret, id_ret, sh_ret>>
           ELSE /\ pc' = [pc EXCEPT ![i] = "done"]
                /\ tx' = [tx EXCEPT !.tx_ins[i].script_sig =
                             Script(<<Data(der.val \o <<1>>),
                                      Data(pubkey_bytes)>>)]
                /\ tx_ret' = None
                /\ id_ret' = None
                /\ sh_ret' = None
    /\ UNCHANGED <<owner, msgs, unsigned, sigs>>
    /\ UNCHANGED <<invVars, curveVars, signVars>>
    /\ UNCHANGED <<groupVars, keyVars, codecVars, encVars>>

\* tx.tx_ins[i].script_sig = s, by anyone who holds the transaction.
ReplaceScriptSig(i, s) ==
    /\ tx.tx_ins[i].script_sig # s
    /\ tx' = [tx EXCEPT !.tx_ins[i].script_sig = s]
    /\ tx_ret' = None
    /\ id_ret' = None
    /\ sh_ret' = None
    /\ UNCHANGED <<owner, pc, msgs, unsigned, sigs>>
    /\ UNCHANGED <<invVars, curveVars, signVars>>
    /\ UNCHANGED <<groupVars, keyVars, codecVars, encVars>>

\* tx.encode()
CallEncode ==
    /\ tx_ret' = Tx_encode(tx, PyInt(-1))
    /\ UNCHANGED <<tx, owner, pc, msgs, unsigned, sigs, id_ret, sh_ret>>
    /\ UNCHANGED <<invVars, curveVars, signVars>>
    /\ UNCHANGED <<groupVars, keyVars, codecVars, encVars>>

\* tx.id()
CallId ==
    /\ id_ret' = Tx_id(tx)
    /\ UNCHANGED <<tx, owner, pc, msgs, unsigned, sigs, tx_ret, sh_ret>>
    /\ UNCHANGED <<invVars, curveVars, signVars>>
    /\ UNCHANGED <<groupVars, keyVars, codecVars, encVars>>

\* The values a caller passes as sig_index: None, and the ints from two
\* below the first input to one past the last input of the largest
\* transaction (the default -1 among them).
SigIndexes == {None} \cup {PyInt(k) : k \in -2 .. MaxInputs + 1}

\* tx.encode(sig_index)
CallEncodeSigIndex(sig_index) ==
    /\ sh_ret' = [sig_index |-> sig_index, ret |-> Tx_encode(tx, sig_index)]
    /\ UNCHANGED <<tx, owner, pc, msgs, unsigned, sigs, tx_ret, id_ret>>
    /\ UNCHANGED <<invVars, curveVars, signVars>>
    /\ UNCHANGED <<groupVars, keyVars, codecVars, encVars>>

TxNext ==
    \/ \E i \in Inputs : SignInput(i)
    \/ \E i \in Inputs : SetScriptSig(i)
    \/ \E i \in Inputs, s \in ForeignScripts : ReplaceScriptSig(i, s)
    \/ CallEncode
    \/ CallId
    \/ \E sig_index \in SigIndexes : CallEncodeSigIndex(sig_index)

-----------------------------------------------------------------------------
(* Script.encode called on scripts of every shape, and the encoders of     *)
(* TxIn, TxOut and Tx called on objects that hold the script.              *)

\* Scripts of up to MaxCmds elements: opcodes, and pushes of 0, 1, 74 and
\* 75 bytes.
MaxCmds == 4
PushLengths == {0, 1, 74, 75}
ScriptElements ==
    {Op(118), Op(172)} \cup {Data([k \in 1 .. len |-> 171]) : len \in PushLengths}

SmallScript == Script(<<Op(172)>>)

ScriptInit ==
    /\ \E m \in 0 .. MaxCmds :
           \E cmds \in [1 .. m -> ScriptElements] : sc_script = Script(cmds)
    /\ sc_pc = "ready"
    /\ sc_ret = None

ScriptIdle ==
    /\ sc_script = Script(<<>>)
    /\ sc_pc = "idle"
    /\ sc_ret = None

\* script.encode(), and the encode() of a TxIn whose script_sig it is, of
\* a TxIn whose prev_tx_script_pubkey it is (being signed), of a TxOut
\* whose script_pubkey it is, and of the transactions of these.
CallScriptEncoders ==
    /\ sc_pc = "ready"
    /\ LET tx_in == TxIn(PrevTx, 0, SmallScript, sc_script, 2147483647)
           tx_in_lock == TxIn(PrevTx, 0, sc_script, None, 2147483647)
           tx_in_small == TxIn(PrevTx, 0, SmallScript, SmallScript, 2147483647)
           tx_out == TxOut(95000, sc_script)
           tx_out_small == TxOut(95000, SmallScript)
       IN  sc_ret' =
               [script |-> Script_encode(sc_script),
                tx_in |-> TxIn_encode(tx_in, "None"),
                tx_in_lock |-> TxIn_encode(tx_in_lock, "True"),
                tx_out |-> TxOut_encode(tx_out),
                tx_of_in |-> Tx_encode([version |-> 1, tx_ins |-> <<tx_in>>,
                                        tx_outs |-> <<tx_out_small>>,
                                        locktime |-> 0], PyInt(-1)),
                tx_of_lock |-> Tx_encode([version |-> 1,
                                          tx_ins |-> <<tx_in_lock>>,
                                          tx_outs |-> <<tx_out_small>>,
                                          locktime |-> 0], PyInt(0)),
                tx_of_out |-> Tx_encode([version |-> 1,
                                         tx_ins |-> <<tx_in_small>>,
                                         tx_outs |-> <<tx_out>>,
                                         locktime |-> 0], PyInt(-1))]
    /\ sc_pc' = "done"
    /\ UNCHANGED sc_script
    /\ UNCHANGED <<invVars, curveVars, signVars, txVars>>
    /\ UNCHANGED <<groupVars, keyVars, varintVars, encVars>>

ScriptNext == CallScriptEncoders

-----------------------------------------------------------------------------
(* The specifications: each runs one part of the package and leaves the    *)
(* state of the others as it is.                                           *)

\* The parts of the package a specification does not run.
GroupIdle == RmulIdle /\ AddIdle
CodecIdle == VarintIdle /\ ScriptIdle
EncIdle == enc_ret = None

InitInv ==
    /\ InvInit /\ CurveIdle /\ SignIdle /\ TxIdle
    /\ GroupIdle /\ KeyIdle /\ CodecIdle /\ EncIdle
SpecInv == InitInv /\ [][InvNext]_vars

InitCurve ==
    /\ CurveInit /\ InvIdle /\ SignIdle /\ TxIdle
    /\ GroupIdle /\ KeyIdle /\ CodecIdle /\ EncIdle
SpecCurve == InitCurve /\ [][CurveNext]_vars

InitSign ==
    /\ SignInit /\ InvIdle /\ CurveIdle /\ TxIdle
    /\ GroupIdle /\ KeyIdle /\ CodecIdle /\ EncIdle
SpecSign == InitSign /\ [][SignNext]_vars

InitTx ==
    /\ TxInit /\ InvIdle /\ CurveIdle
    /\ GroupIdle /\ KeyIdle /\ CodecIdle /\ EncIdle
SpecTx == InitTx /\ [][TxNext]_vars

InitRmul ==
    /\ RmulInit /\ AddIdle /\ InvIdle /\ CurveIdle /\ SignIdle /\ TxIdle
    /\ KeyIdle /\ CodecIdle /\ EncIdle
SpecRmul == InitRmul /\ [][RmulNext]_vars

InitAdd ==
    /\ AddInit /\ RmulIdle /\ InvIdle /\ CurveIdle /\ SignIdle /\ TxIdle
    /\ KeyIdle /\ CodecIdle /\ EncIdle
SpecAdd == InitAdd /\ [][AddNext]_vars

\* The secure random source is fair: a loop that keeps drawing draws a
\* value of 1 .. n-1 in the end.  The steps of gen_key_pair are taken.
\* (These actions change keyVars only.)  GenKeyPairReturn is enabled
\* exactly when key_pc = "have_sk" and leaves that state, so its weak
\* fairness is that key_pc is not "have_sk" forever.
InitKey ==
    /\ KeyInit /\ GroupIdle /\ InvIdle /\ CurveIdle /\ SignIdle /\ TxIdle
    /\ CodecIdle /\ EncIdle
SpecKey ==
    /\ InitKey
    /\ [][KeyNext]_vars
    /\ WF_keyVars(\E v \in 1 .. key_n - 1 : Draw(v))
    /\ WF_keyVars(GenKeyPairEnter)
    /\ []<>(key_pc # "have_sk")

InitVarint ==
    /\ VarintInit /\ ScriptIdle /\ GroupIdle /\ InvIdle /\ CurveIdle
    /\ SignIdle /\ TxIdle /\ KeyIdle /\ EncIdle
SpecVarint == InitVarint /\ [][VarintNext]_vars

InitScript ==
    /\ ScriptInit /\ VarintIdle /\ GroupIdle /\ InvIdle /\ CurveIdle
    /\ SignIdle /\ TxIdle /\ KeyIdle /\ EncIdle
SpecScript == InitScript /\ [][ScriptNext]_vars

-----------------------------------------------------------------------------
(* Claims about inv.                                                       *)

\* The greatest common divisor, from its definition (not from the loop).
GCD(a, b) ==
    LET ds == {d \in 1 .. Max(Max(Abs(a), Abs(b)), 1) : a % d = 0 /\ b % d = 0}
    IN  CHOOSE d \in ds : \A e \in ds : e <= d

\* C9: inv(n, p) with gcd(n, p) # 1 (n = 0 mod p included) ends in a
\* precondition error and returns no value to the caller.
C9_NonCoprimeIsFatal ==
    (inv_pc = "done" /\ GCD(inv_n, inv_p) # 1) => IsExc(inv_ret)

\* C10: for p > 1 and gcd(n, p) = 1, negative n and n >= p included, inv
\* returns m with 0 <= m < p and (n * m) mod p = 1, and the loop ends with
\* (gcd, x, y) such that n*x + p*y = gcd and gcd > 0.
C10_InvCorrect ==
    (inv_pc = "done" /\ GCD(inv_n, inv_p) = 1) =>
        /\ IsOk(inv_ret)
        /\ inv_ret.val \in 0 .. inv_p - 1
        /\ (inv_n * inv_ret.val) % inv_p = 1
        /\ inv_n * eea.s0 + inv_p * eea.t0 = eea.r0
        /\ eea.r0 > 0
        /\ inv(inv_n, inv_p) = inv_ret.val

\* C10's case: inv has returned for a negative n coprime to p, after more
\* than one pass of the loop.
C10_Witness ==
    /\ inv_pc = "done"
    /\ inv_n < 0
    /\ GCD(inv_n, inv_p) = 1
    /\ inv_p > 2
    /\ IsOk(inv_ret)
    /\ inv_ret.val > 1

-----------------------------------------------------------------------------
(* Claims about the on-curve predicate.                                    *)

\* The reference predicate: true of infinity; of (x, y) on Curve(p, a, b)
\* exactly when y^2 = x^3 + a*x + b (mod p).
OnCurveReference(P) ==
    \/ P = INF
    \/ /\ P # INF
       /\ (P.y * P.y) % P.curve.p
              = (P.x * P.x * P.x + P.curve.a * P.x + P.curve.b) % P.curve.p

\* C8: the on-curve predicate equals the reference predicate for every
\* point of every curve: true for infinity, and for (x, y) true exactly
\* when the curve's own equation holds.
C8_OnCurveIsReference ==
    cv_pc = "done" => cv_ret = Ok(OnCurveReference(cv_point))

-----------------------------------------------------------------------------
(* Claims about sign and verify.                                           *)

\* C4: sign only returns signatures with 1 <= r <= n-1 and 1 <= s <= n-1.
C4_SignatureInRange ==
    sig # None =>
        /\ sig.r \in 1 .. BITCOIN_gen.n - 1
        /\ sig.s \in 1 .. BITCOIN_gen.n - 1

\* C5: verify(pk, msg, sign(sk, msg)) returns true for every message and
\* every key pair.
C5_SignVerifyRoundTrip ==
    ver_ret # None => ver_ret = Ok("True")

\* C6: the s that sign returns is at most n / 2.
C6_LowS ==
    sig # None => 2 * sig.s <= BITCOIN_gen.n

\* C7: no two calls of sign under the same secret key draw their nonce
\* from the same state of one shared generator (and so use the same k).
C7_NonceIndependence ==
    \A i, j \in 1 .. Len(calls) :
        (i < j /\ calls[i].secret_key = calls[j].secret_key)
            => calls[i].g # calls[j].g

-----------------------------------------------------------------------------
(* Claims about the transaction codec.                                     *)

AllSigned == \A i \in Inputs : tx.tx_ins[i].script_sig # None

\* A reader of an encoded transaction: the number of bytes before input j
\* (after the 4 bytes of version and the 1 byte of the input count), found
\* by reading the length byte of every script field before it.
RECURSIVE InputOffset(_, _)
InputOffset(m, j) ==
    IF j = 1 THEN 5
    ELSE LET o == InputOffset(m, j - 1)
             s == o + Len(tx.tx_ins[j - 1].prev_tx) + 4
         IN  s + 1 + m[s + 1] + 4

\* The script field of input j in m: its length byte and its body.
ScriptField(m, j) ==
    LET s == InputOffset(m, j) + Len(tx.tx_ins[j].prev_tx) + 4
    IN  SubSeq(m, s + 1, s + 1 + m[s + 1])

\* C1: with N >= 2 inputs, the message tx.encode(sig_index=i) has input
\* i's script field equal to its previous locking script, every other
\* input's script field equal to the empty script (the byte 0x00), and
\* ends with 01 00 00 00.
C1_SighashMessage ==
    Len(tx.tx_ins) >= 2 =>
        \A i \in Inputs :
            LET m == Tx_encode(tx, PyInt(i - 1))
            IN  /\ IsOk(m)
                /\ ScriptField(m.val, i)
                       = Script_encode(tx.tx_ins[i].prev_tx_script_pubkey).val
                /\ Len(ScriptField(m.val, i)) > 1
                /\ \A j \in Inputs \ {i} : ScriptField(m.val, j) = <<0>>
                /\ SubSeq(m.val, Len(m.val) - 3, Len(m.val)) = <<1, 0, 0, 0>>
                /\ (msgs[i] # None => msgs[i] = m)

\* C1's case: a transaction of two or more inputs, one of them signed
\* already and the signer of another holding its message.
C1_Witness ==
    /\ Len(tx.tx_ins) >= 2
    /\ \E i, j \in Inputs :
          /\ i # j
          /\ pc[i] = "done"
          /\ pc[j] = "signed"
          /\ msgs[j] = unsigned[j]

\* C2: the message for input i does not depend on any script_sig: after
\* any sequence of signers populating or replacing unlocking scripts, in
\* any order and interleaving, it is the message of the unsigned
\* transaction, byte for byte.
C2_SignersDoNotInterfere ==
    \A i \in Inputs :
        /\ Tx_encode(tx, PyInt(i - 1)) = unsigned[i]
        /\ (msgs[i] # None => msgs[i] = unsigned[i])

\* C2's case: a signer computed its message after another input was
\* signed, and a script_sig was replaced.
C2_Witness ==
    \E i, j \in Inputs :
        /\ i # j
        /\ msgs[i] # None
        /\ pc[i] = "done"
        /\ pc[j] = "done"
        /\ sigs[j] # None /\ sigs[i] # None
        /\ tx.tx_ins[j].script_sig \in ForeignScripts
        /\ tx.tx_ins[i].script_sig \notin ForeignScripts

\* C3: tx.encode() and tx.id() raise and return no bytes while any input's
\* script_sig is None, and return once every script_sig is populated: the
\* transaction becomes serializable exactly when its last unsigned input
\* is signed.
C3_LifecycleGate ==
    /\ IsOk(Tx_encode(tx, PyInt(-1))) <=> AllSigned
    /\ IsOk(Tx_id(tx)) <=> AllSigned
    /\ tx_ret # None => (tx_ret = Tx_encode(tx, PyInt(-1)) /\ (IsOk(tx_ret) <=> AllSigned))
    /\ id_ret # None => (id_ret = Tx_id(tx) /\ (IsOk(id_ret) <=> AllSigned))

\* C3's case: encode() and id() have returned after the last of two or
\* more signers finished.
C3_Witness ==
    /\ Len(tx.tx_ins) >= 2
    /\ \A i \in Inputs : pc[i] = "done"
    /\ tx_ret # None /\ IsOk(tx_ret)
    /\ id_ret # None /\ IsOk(id_ret)

-----------------------------------------------------------------------------
(* Claims about the group law.                                             *)

\* An affine point of its curve: coordinates in 0 .. p-1 that satisfy
\* y^2 = x^3 + a*x + b (mod p).
IsAffine(P) ==
    /\ P # INF
    /\ P.x \in 0 .. P.curve.p - 1
    /\ P.y \in 0 .. P.curve.p - 1
    /\ OnCurveReference(P)

\* C11: for k1, k2 in 1 .. n-1, k1*G + k2*G = ((k1 + k2) mod n)*G, which
\* is infinity when (k1 + k2) mod n = 0; and n*G is infinity.
C11_MultiplesAdd ==
    (rm_pc = "summed" /\ rm_self = BITCOIN_gen.G
        /\ rm_k0 \in 1 .. BITCOIN_gen.n - 1) =>
        /\ rm_sum = Point__rmul__((rm_k0 + rm_k2) % BITCOIN_gen.n,
                                  BITCOIN_gen.G).val
        /\ ((rm_k0 + rm_k2) % BITCOIN_gen.n = 0 <=> rm_sum = INF)
        /\ Point__rmul__(BITCOIN_gen.n, BITCOIN_gen.G).val = INF

\* C11's case: two multiples of G whose scalars add up to n have been
\* added.
C11_Witness ==
    /\ rm_pc = "summed"
    /\ rm_self = BITCOIN_gen.G
    /\ rm_k0 \in 1 .. BITCOIN_gen.n - 1
    /\ rm_k0 + rm_k2 = BITCOIN_gen.n
    /\ rm_sum = INF

\* C12: for k in 1 .. n-1, k*G is an affine point of the curve, and in
\* every pass of the loop result is infinity or an affine point of the
\* curve and append is an affine point of the curve.
C12_MultiplesOnCurve ==
    (rm_self = BITCOIN_gen.G /\ rm_k0 \in 1 .. BITCOIN_gen.n - 1
        /\ rm_pc \in {"loop", "returned", "summed"}) =>
        /\ rm_result = INF \/ IsAffine(rm_result)
        /\ rm_append = INF \/ IsAffine(rm_append)
        /\ rm_pc # "loop" => (IsOk(rm_ret) /\ IsAffine(rm_ret.val))

\* C12's case: the largest multiple below n*G has been returned, after
\* three passes of the loop.
C12_Witness ==
    /\ rm_pc = "returned"
    /\ rm_self = BITCOIN_gen.G
    /\ rm_k0 = BITCOIN_gen.n - 1
    /\ rm_k = 0
    /\ IsAffine(rm_append)
    /\ IsAffine(rm_ret.val)

\* The sum of k copies of P added to infinity one at a time.
RECURSIVE RepeatedAdd(_, _)
RepeatedAdd(k, P) ==
    IF k = 0 THEN INF ELSE Point__add__(RepeatedAdd(k - 1, P), P)

\* C14: for k >= 0 and P generated by G, k*P is the sum of k copies of P
\* added to infinity one at a time (0*P is infinity).
C14_DoubleAndAddIsRepeatedAdd ==
    (rm_pc \in {"returned", "summed"} /\ rm_k0 >= 0) =>
        /\ IsOk(rm_ret)
        /\ rm_ret.val = RepeatedAdd(rm_k0, rm_self)
        /\ rm_k0 = 0 => rm_ret.val = INF
        /\ rm_ret = Point__rmul__(rm_k0, rm_self)

\* C14's case: 4*G has been returned, and it is G+G+G+G.
C14_Witness ==
    /\ rm_pc = "returned"
    /\ rm_self = BITCOIN_gen.G
    /\ rm_k0 = 4
    /\ rm_ret.val =
           Point__add__(Point__add__(Point__add__(rm_self, rm_self), rm_self),
                        rm_self)

C19_AddIsClosed ==
    (add_pc = "done" /\ add_P # INF /\ add_Q # INF) =>
        (add_ret.val = INF \/ IsAffine(add_ret.val))

-----------------------------------------------------------------------------
(* Claims about the transaction id.                                        *)

\* The id of a transaction whose encoding is the bytes b.
IdOfBytes(b) == hex(Reverse(sha256(sha256(b))))

\* On a fully signed transaction, what encode() and id() returned is what
\* they return now, and the id is a function of the encoded bytes alone.
C15_Returned ==
    AllSigned =>
        /\ tx_ret # None => (IsOk(tx_ret) /\ tx_ret = Tx_encode(tx, PyInt(-1)))
        /\ id_ret # None =>
               /\ IsOk(id_ret)
               /\ id_ret.val = IdOfBytes(Tx_encode(tx, PyInt(-1)).val)
               /\ tx_ret # None => id_ret.val = IdOfBytes(tx_ret.val)

\* A call of encode() or id() leaves the transaction as it is, and a call
\* repeated on the same transaction returns what the call before returned.
C15_Call ==
    /\ ((tx_ret' # None /\ tx_ret' # tx_ret)
           \/ (id_ret' # None /\ id_ret' # id_ret)) => tx' = tx
    /\ (tx' = tx /\ tx_ret # None) => tx_ret' = tx_ret
    /\ (tx' = tx /\ id_ret # None) => id_ret' = id_ret

-----------------------------------------------------------------------------
(* Claims about key generation.                                            *)

\* While the loop runs every value drawn so far was 0 or >= n; the key the
\* loop ends with, and the one the caller gets, is in 1 .. n-1; gen_key_pair
\* returns it with sk * G.
C16_KeyInRange ==
    /\ (key_pc = "loop" /\ key # None) => key.val \notin 1 .. key_n - 1
    /\ (key_pc \in {"have_sk", "done"} /\ key_pass = None) =>
           key.val \in 1 .. key_n - 1
    /\ (key_pc = "done" /\ key_caller = "direct") => key_ret = key
    /\ (key_pc = "done" /\ key_caller = "gen_key_pair" /\ key_pass = None) =>
           /\ IsOk(key_ret)
           /\ key_ret.val[1] = key.val
           /\ key_ret.val[2] = RepeatedAdd(key.val, BITCOIN_gen.G)
           /\ IsAffine(key_ret.val[2])

\* C16: gen_random_secret_key(n) never returns a value outside 1 .. n-1,
\* every drawn value that is 0 or >= n being drawn again, and with a fair
\* random source the loop ends; gen_key_pair returns that sk with sk * G.
C16_KeyGeneration == []C16_KeyInRange /\ <>(key_pc = "done")

\* C16's case: gen_key_pair, given no passphrase, has returned a key pair.
C16_Witness ==
    /\ key_pc = "done"
    /\ key_caller = "gen_key_pair"
    /\ key_pass = None
    /\ IsOk(key_ret)
    /\ key_ret.val[1] = BITCOIN_gen.n - 1

-----------------------------------------------------------------------------
(* Claims about the codec.                                                 *)

\* The body of a script: one byte per opcode, the length byte and the
\* bytes per push.
RECURSIVE ScriptBody(_)
ScriptBody(cmds) ==
    IF cmds = <<>> THEN <<>>
    ELSE (IF IsOp(Head(cmds)) THEN <<Head(cmds).op>>
          ELSE <<Len(Head(cmds).data)>> \o Head(cmds).data)
         \o ScriptBody(Tail(cmds))

\* The varint of a length below 0x10000.
LengthPrefix(len) ==
    IF len < 253 THEN <<len>> ELSE <<253, len % 256, len \div 256>>

HasLargePush(script) ==
    \E i \in 1 .. Len(script.cmds) :
        ~IsOp(script.cmds[i]) /\ Len(script.cmds[i].data) >= 75

\* C17: Script.encode returns varint(len(body)) then body, body being one
\* byte per opcode and (length byte, bytes) per push of less than 75
\* bytes; with a push of 75 bytes or more it raises and returns no bytes,
\* and so does every TxIn, TxOut and Tx encoding that contains the script.
C17_ScriptEncode ==
    sc_pc = "done" =>
        LET body == ScriptBody(sc_script.cmds)
            enc == LengthPrefix(Len(body)) \o body
            in_bytes == <<188, 154, 241, 134, 0, 0, 0, 0>> \o enc
                            \o <<255, 255, 255, 127>>
            in_small == <<188, 154, 241, 134, 0, 0, 0, 0, 1, 172,
                          255, 255, 255, 127>>
            out_bytes == <<24, 115, 1, 0, 0, 0, 0, 0>> \o enc
            out_small == <<24, 115, 1, 0, 0, 0, 0, 0, 1, 172>>
        IN  IF HasLargePush(sc_script)
            THEN \A f \in DOMAIN sc_ret : sc_ret[f] = Raise("AssertionError")
            ELSE /\ sc_ret.script = Ok(enc)
                 /\ sc_ret.tx_in = Ok(in_bytes)
                 /\ sc_ret.tx_in_lock = Ok(in_bytes)
                 /\ sc_ret.tx_out = Ok(out_bytes)
                 /\ sc_ret.tx_of_in =
                        Ok(<<1, 0, 0, 0, 1>> \o in_bytes \o <<1>>
                               \o out_small \o <<0, 0, 0, 0>>)
                 /\ sc_ret.tx_of_lock =
                        Ok(<<1, 0, 0, 0, 1>> \o in_bytes \o <<1>>
                               \o out_small \o <<0, 0, 0, 0, 1, 0, 0, 0>>)
                 /\ sc_ret.tx_of_out =
                        Ok(<<1, 0, 0, 0, 1>> \o in_small \o <<1>>
                               \o out_bytes \o <<0, 0, 0, 0>>)

\* C17's case: the encoders have been called on a script of several
\* elements, one of them a push of 75 bytes, and have raised.
C17_Witness ==
    /\ sc_pc = "done"
    /\ Len(sc_script.cmds) >= 2
    /\ HasLargePush(sc_script)
    /\ IsExc(sc_ret.script)
    /\ IsExc(sc_ret.tx_of_out)

\* What the first byte of a varint says the length of the whole is.
VarintLength(first) ==
    IF first < 253 THEN 1
    ELSE IF first = 253 THEN 3
    ELSE IF first = 254 THEN 5
    ELSE 9

\* The integer a varint holds, in base 256, lowest digit first, the
\* highest digit not 0.
VarintValue(enc) ==
    LET digits == IF enc[1] < 253 THEN <<enc[1]>> ELSE Tail(enc)
        nonzero == {k \in 1 .. Len(digits) : digits[k] # 0}
    IN  IF nonzero = {} THEN <<>>
        ELSE SubSeq(digits, 1, CHOOSE k \in nonzero : \A j \in nonzero : j <= k)

\* C18: encode_varint(i), i >= 0, is the byte i when i < 0xFD, 0xFD and 2
\* little-endian bytes when i < 0x10000, 0xFE and 4 when i < 0x100000000,
\* 0xFF and 8 when i < 2^64, and an error from 2^64 on; the first byte
\* gives the length of the whole, and the value can be read back.
C18_Varint ==
    vi_pc = "done" =>
        LET len == Len(vi_i)
            one_byte == len = 0 \/ (len = 1 /\ vi_i[1] < 253)
            low == [k \in 1 .. 8 |-> IF k <= len THEN vi_i[k] ELSE 0]
        IN  /\ one_byte => vi_ret = Ok(<<low[1]>>)
            /\ (~one_byte /\ len <= 2) =>
                   vi_ret = Ok(<<253>> \o SubSeq(low, 1, 2))
            /\ len \in 3 .. 4 => vi_ret = Ok(<<254>> \o SubSeq(low, 1, 4))
            /\ len \in 5 .. 8 => vi_ret = Ok(<<255>> \o low)
            /\ len >= 9 => vi_ret = Raise("ValueError")
            /\ IsOk(vi_ret) =>
                   /\ Len(vi_ret.val) = VarintLength(vi_ret.val[1])
                   /\ VarintValue(vi_ret.val) = vi_i

\* C18's case: encode_varint has returned for an argument of more than
\* 2^56, with the first byte 0xFF.
C18_Witness ==
    /\ vi_pc = "done"
    /\ Len(vi_i) = 8
    /\ IsOk(vi_ret)
    /\ vi_ret.val[1] = 255

-----------------------------------------------------------------------------
(* Claims about the encoding of signatures.                                *)

\* The minimal big-endian bytes of v, 0 < v < 256, 0x00 before a first
\* byte >= 0x80.
DerInteger(v) == IF v >= 128 THEN <<0, v>> ELSE <<v>>

\* C20: for every signature sign returns, Signature.encode raises nothing
\* and returns 0x30, len(content), content, where content is 0x02,
\* len(rb), rb, 0x02, len(sb), sb and rb, sb are the non-empty minimal
\* big-endian bytes of r and s.
C20_SignThenEncode ==
    enc_ret # None =>
        /\ IsOk(enc_ret.ret)
        /\ LET rb == DerInteger(enc_ret.sig.r)
               sb == DerInteger(enc_ret.sig.s)
               content == <<2, Len(rb)>> \o rb \o <<2, Len(sb)>> \o sb
           IN  enc_ret.ret.val = <<48, Len(content)>> \o content

-----------------------------------------------------------------------------
(* Claims about tx.encode(sig_index) for a sig_index that names no input.  *)

\* sig_index names input number sig_index + 1 of the transaction.
NamesAnInput(sig_index) ==
    /\ sig_index # None
    /\ sig_index.int >= 0
    /\ sig_index.int < Len(tx.tx_ins)

\* The inputs whose script field in m is their previous locking script.
Substituted(m) ==
    {j \in Inputs :
        ScriptField(m, j)
            = Script_encode(tx.tx_ins[j].prev_tx_script_pubkey).val}

\* C21: tx.encode(sig_index) with a sig_index other than -1 raises no
\* error and ends with 01 00 00 00 whatever sig_index is.  When sig_index
\* is none of 0 .. N-1 (it is N, more than N, less than -1, or None), every
\* input is written with the empty script (the byte 0x00) and no input
\* with its previous locking script; when it is one of 0 .. N-1, exactly
\* the input at that position is written with its previous locking script
\* and every other with the empty script.
C21_SigIndexOutOfRange ==
    (sh_ret # None /\ sh_ret.sig_index # PyInt(-1)) =>
        LET sig_index == sh_ret.sig_index
            m == sh_ret.ret
        IN  /\ IsOk(m)
            /\ SubSeq(m.val, Len(m.val) - 3, Len(m.val)) = <<1, 0, 0, 0>>
            /\ \A j \in Inputs \ Substituted(m.val) :
                   ScriptField(m.val, j) = <<0>>
            /\ IF NamesAnInput(sig_index)
               THEN Substituted(m.val) = {sig_index.int + 1}
               ELSE Substituted(m.val) = {}

\* C21's case: tx.encode(sig_index=N) has returned for a transaction of
\* N = 2 inputs, one of them signed already.
C21_Witness ==
    /\ Len(tx.tx_ins) = 2
    /\ \E i \in Inputs : pc[i] = "done"
    /\ sh_ret # None
    /\ sh_ret.sig_index = PyInt(Len(tx.tx_ins))
    /\ IsOk(sh_ret.ret)

=============================================================================
